---- MODULE Spec2Model ----
(***************************************************************************)
(* Model of src/tools/46elks-bridge/elks_bridge.py: the 46elks webhook     *)
(* bridge.  One process: module-level configuration read from the          *)
(* environment, run() serving POST callbacks one at a time, and the        *)
(* KeyboardInterrupt handler that closes the listening socket.             *)
(*                                                                         *)
(* Representation of Python values:                                        *)
(*   str            a TLA+ string                                          *)
(*   Optional[str]  a sequence of at most one string, None being << >>     *)
(*   dict           a function whose DOMAIN is the set of keys             *)
(*   list           a sequence                                             *)
(* A request body is the sequence of its name=value fields in wire order;  *)
(* Content-Length counts fields.  A JSON body is the object that was       *)
(* handed to json.dumps, tagged json; a raw body is tagged bytes.          *)
(***************************************************************************)
EXTENDS Integers, Sequences, FiniteSets, TLC

VARIABLES
    environ,            \* os.environ after load_dotenv()
    PRESS_DIGIT,        \* module global, line 11
    RECORDING_LIMIT,    \* module global, line 12
    FORWARD_TO_NUMBER,  \* module global, line 13 (Optional[str])
    VIRTUAL_NUMBER,     \* module global, line 14
    pc,                 \* position of run(): start, serving, except, exited, killed
    socket,             \* listening socket of httpd: unbound, listening, closed
    sigint,             \* TRUE once the interrupt signal has been delivered
    request,            \* << >> when idle, else <<r>>: the request just handled
    called,             \* the handlers do_POST called for that request, in order
    wfile,              \* the responses written for that request, in order
    stdout,             \* the lines printed by the last step
    earlier             \* history: << >> or one remembered exchange, and
                        \* whether another request has been handled since

config == <<PRESS_DIGIT, RECORDING_LIMIT, FORWARD_TO_NUMBER, VIRTUAL_NUMBER>>
exchange == <<request, called, wfile>>
vars == <<environ, config, pc, socket, sigint, exchange, stdout, earlier>>

----------------------------------------------------------------------------
(* Bounds and input alphabets *)

\* Largest number of name=value fields in a request body.
MaxPairs == 2

\* The same, for the requests of the specification that keeps a history.
MaxPairsTwice == 1

None == << >>
Some(s) == <<s>>

\* (variant: any set variable counts as true, also an empty one)
IsSet(o) == o # None

\* Truth value of an Optional[str] in a Python condition.
Truthy(o) == o # None /\ o[1] # ""

FieldNames == {"callid", "from", "recording_url", "message"}

FieldValues(name) ==
    CASE name = "callid"        -> {"", "c1"}
      [] name = "from"          -> {"", "+4670"}
      [] name = "recording_url" -> {"", "https://rec/1"}
      [] name = "message"       -> {"", "hi"}

Fields == UNION {{<<n, v>> : v \in FieldValues(n)} : n \in FieldNames}

Bodies == UNION {[1..n -> Fields] : n \in 0..MaxPairs}

HostHeaders == {None, Some("bridge.example")}

\* A well-formed POST: Content-Length is present and is the body's length.
Request(host, body) ==
    [headers |-> IF host = None
                 THEN ("Content-Length" :> Len(body))
                 ELSE ("Content-Length" :> Len(body)) @@ ("Host" :> host[1]),
     rfile   |-> body]

Requests == {Request(h, b) : h \in HostHeaders, b \in Bodies}

\* The environments the process may be started in.
Environments ==
    {e \in [{"PRESS_DIGIT", "RECORDING_LIMIT", "FORWARD_TO_NUMBER"} ->
               {None, Some(""), Some("5"), Some("30"), Some("+1234")}] :
        /\ e["PRESS_DIGIT"] \in {None, Some(""), Some("5")}
        /\ e["RECORDING_LIMIT"] \in {None, Some("30")}
        /\ e["FORWARD_TO_NUMBER"] \in {None, Some(""), Some("+1234")}}

----------------------------------------------------------------------------
(* Library functions the program calls *)

\* os.getenv(key, default): Optional[str].  A variable is unset when the
\* environment maps it to None.
getenv(env, key, default) ==
    IF key \in DOMAIN env /\ env[key] # None THEN env[key] ELSE default

\* int(s) for the decimal strings the environments hold.
int(s) ==
    CASE s = "60" -> 60
      [] s = "30" -> 30

\* dict.get(key, default)
get(d, key, default) == IF key \in DOMAIN d THEN d[key] ELSE default

\* urllib.parse.parse_qs(qs) with its defaults (keep_blank_values=False):
\* a field whose value is blank is dropped; the others are grouped by name,
\* each name mapping to the list of its values in wire order.
RECURSIVE parse_qsl(_)
parse_qsl(qs) ==
    IF qs = << >> THEN << >>
    ELSE IF Head(qs)[2] = "" THEN parse_qsl(Tail(qs))
         ELSE <<Head(qs)>> \o parse_qsl(Tail(qs))

RECURSIVE ValuesOf(_, _)
ValuesOf(pairs, name) ==
    IF pairs = << >> THEN << >>
    ELSE IF Head(pairs)[1] = name
         THEN <<Head(pairs)[2]>> \o ValuesOf(Tail(pairs), name)
         ELSE ValuesOf(Tail(pairs), name)

parse_qs(qs) ==
    LET pairs == parse_qsl(qs)
        names == {pairs[i][1] : i \in DOMAIN pairs}
    IN  [n \in names |-> ValuesOf(pairs, n)]

----------------------------------------------------------------------------
(* ElksBridgeHandler *)

\* One HTTP response: send_response, send_header, end_headers, wfile.write.
Response(status, ctype, body) ==
    [status |-> status, headers |-> ("Content-type" :> ctype), body |-> body]

_send_json(data) == Response(200, "application/json", [json |-> data])

_send_ok == Response(200, "text/plain", [bytes |-> "OK"])

Dashes == "--------------------"
Equals == "========================================"

\* (variant: one pause short)
dtmf_short(digit) == "sound/dtmf/PPPPPPPPP" \o digit

\* Line 54: the sound path that plays the pauses and then the digit.
dtmf(digit) == "sound/dtmf/PPPPPPPPPP" \o digit

\* (variant: the forwarding branch falls through into the recording branch)
Instructions_fallthrough(callback) ==
    LET instructions == ("recordcall" :> callback)
        recording    == ("record" :> callback) @@ ("timelimit" :> RECORDING_LIMIT)
    IN  IF PRESS_DIGIT # ""
        THEN instructions
               @@ ("play" :> dtmf(PRESS_DIGIT))
               @@ ("next" :> IF Truthy(FORWARD_TO_NUMBER)
                             THEN ("connect" :> FORWARD_TO_NUMBER[1])
                             ELSE recording)
        ELSE IF Truthy(FORWARD_TO_NUMBER)
        THEN instructions @@ ("connect" :> FORWARD_TO_NUMBER[1]) @@ recording
        ELSE instructions @@ recording

\* The instructions built by the initial-call branch of _handle_voice.
Instructions(callback) ==
    LET instructions == ("recordcall" :> callback)
    IN  IF PRESS_DIGIT # ""
        THEN instructions
               @@ ("play" :> dtmf(PRESS_DIGIT))
               @@ ("next" :> IF Truthy(FORWARD_TO_NUMBER)
                             THEN ("connect" :> FORWARD_TO_NUMBER[1])
                             ELSE ("record" :> callback)
                                    @@ ("timelimit" :> RECORDING_LIMIT))
        ELSE IF Truthy(FORWARD_TO_NUMBER)
        THEN instructions @@ ("connect" :> FORWARD_TO_NUMBER[1])
        ELSE instructions @@ ("record" :> callback)
                          @@ ("timelimit" :> RECORDING_LIMIT)

\* The lines the initial-call branch prints.
BridgeLog ==
    <<"Initiating Bridge Sequence...">> \o
    (IF PRESS_DIGIT # ""
     THEN <<"Auto-pressing '" \o PRESS_DIGIT \o "' (5s delay)...">>
     ELSE IF Truthy(FORWARD_TO_NUMBER)
     THEN <<"Forwarding to " \o FORWARD_TO_NUMBER[1] \o "...">>
     ELSE << >>)

\* (variant: the Host header is ignored)
callback_localhost(self) == "https://" \o "localhost:5000"

\* Lines 47-48: the callback URL, from the request's Host header.
callback_url(self) == "https://" \o get(self.headers, "Host", "localhost:5000")

\* (variant: a finished recording is not recognised)
recording_ignored(params) == FALSE

\* Line 39: the recording-finished case.
recording_finished(params) == "recording_url" \in DOMAIN params

_handle_voice(self, params) ==
    LET head == <<"", Dashes, "INCOMING VOICE CALL DETECTED",
                  "From: " \o get(params, "from", <<"?">>)[1]>>
        foot == <<Dashes, "">>
    IN  IF recording_finished(params)
        THEN [wfile  |-> <<_send_ok>>,
              stdout |-> head \o
                         <<"RECORDING FINISHED: "
                               \o get(params, "recording_url", <<"">>)[1],
                           "Open that URL in your browser to hear the code!">>
                         \o foot]
        ELSE LET callback == callback_url(self)
             IN  [wfile  |-> <<_send_json(Instructions(callback))>>,
                  stdout |-> head \o BridgeLog \o foot]

\* (variant: the sender defaults as in _handle_voice)
sms_from_qmark(params) == get(params, "from", <<"?">>)[1]

\* Line 67
sms_from(params) == get(params, "from", <<"Unknown">>)[1]

\* (variant: params['from'][0] raises KeyError when the field is missing; the
\* server drops the connection and nothing is written)
_handle_sms_keyerror(self, params) ==
    IF "from" \in DOMAIN params
    THEN [wfile  |-> <<_send_ok>>,
          stdout |-> <<"", Equals, "NEW INCOMING SMS",
                       "From:    " \o params["from"][1],
                       "Message: " \o get(params, "message", <<"">>)[1],
                       Equals, "">>]
    ELSE [wfile |-> << >>, stdout |-> << >>]

_handle_sms(self, params) ==
    LET from    == sms_from(params)
        sms_msg  == get(params, "message", <<"">>)[1]
    IN  [wfile  |-> <<_send_ok>>,
         stdout |-> <<"", Equals, "NEW INCOMING SMS",
                      "From:    " \o from,
                      "Message: " \o sms_msg,
                      Equals, "">>]

\* (variant: dispatch on the caller's number)
dispatch_on_from(params) ==
    IF "from" \in DOMAIN params THEN "_handle_voice" ELSE "_handle_sms"

\* Lines 82-85: which handler do_POST calls.
dispatch(params) ==
    IF "callid" \in DOMAIN params THEN "_handle_voice" ELSE "_handle_sms"

\* (variant: the digit is pressed for the first call only)
do_POST_once(self) ==
    /\ pc = "serving"
    /\ request = << >>
    /\ LET content_length == self.headers["Content-Length"]
           post_data      == SubSeq(self.rfile, 1, content_length)
           params         == parse_qs(post_data)
           handler        == dispatch(params)
           done           == IF handler = "_handle_voice"
                             THEN _handle_voice(self, params)
                             ELSE _handle_sms(self, params)
       IN  /\ request' = <<self>>
           /\ called' = <<handler>>
           /\ wfile' = done.wfile
           /\ stdout' = done.stdout
           /\ PRESS_DIGIT' = IF handler = "_handle_voice" THEN "" ELSE PRESS_DIGIT
    /\ UNCHANGED <<environ, RECORDING_LIMIT, FORWARD_TO_NUMBER, VIRTUAL_NUMBER,
                   pc, socket, sigint>>

\* do_POST: serve_forever has accepted a connection and read a POST request.
do_POST(self) ==
    /\ pc = "serving"
    /\ request = << >>
    /\ LET content_length == self.headers["Content-Length"]
           post_data      == SubSeq(self.rfile, 1, content_length)
           params         == parse_qs(post_data)
           handler        == dispatch(params)
           done           == IF handler = "_handle_voice"
                             THEN _handle_voice(self, params)
                             ELSE _handle_sms(self, params)
       IN  /\ request' = <<self>>
           /\ called' = <<handler>>
           /\ wfile' = done.wfile
           /\ stdout' = done.stdout
    /\ UNCHANGED <<environ, config, pc, socket, sigint>>

\* The server is done with the request: the connection is closed and the
\* handler object dropped; serve_forever waits for the next connection.
shutdown_request ==
    /\ pc = "serving"
    /\ request # << >>
    /\ request' = << >>
    /\ called' = << >>
    /\ wfile' = << >>
    /\ UNCHANGED <<environ, config, pc, socket, sigint, stdout, earlier>>

----------------------------------------------------------------------------
(* run() *)

\* Lines 88-94: bind the socket, announce, enter serve_forever.
run ==
    /\ pc = "start"
    /\ socket' = "listening"
    /\ stdout' = <<"Elks Bridge active on port 5000...",
                   "Listening for SMS & Voice on: " \o VIRTUAL_NUMBER,
                   "Tip: Expose this via 'cloudflared tunnel --url http://localhost:5000'">>
    /\ pc' = "serving"
    /\ UNCHANGED <<environ, config, sigint, exchange, earlier>>

\* The interrupt signal: KeyboardInterrupt is raised in the main thread.
\* Inside serve_forever it reaches the except clause of run(); before the
\* try statement nothing catches it and the process dies.
KeyboardInterrupt ==
    /\ ~sigint
    /\ pc \in {"start", "serving"}
    /\ sigint' = TRUE
    /\ pc' = IF pc = "serving" THEN "except" ELSE "killed"
    /\ UNCHANGED <<environ, config, socket, exchange, stdout, earlier>>

\* (variant: the except clause forgets httpd.server_close())
server_close_missing ==
    /\ pc = "except"
    /\ stdout' = <<"", "Stopping Elks Bridge...">>
    /\ pc' = "exited"
    /\ UNCHANGED <<environ, config, socket, sigint, exchange, earlier>>

\* Lines 95-97: the except clause, then run() returns and the process ends.
server_close ==
    /\ pc = "except"
    /\ stdout' = <<"", "Stopping Elks Bridge...">>
    /\ socket' = "closed"
    /\ pc' = "exited"
    /\ UNCHANGED <<environ, config, sigint, exchange, earlier>>

----------------------------------------------------------------------------
(* Specifications *)

\* Module import: lines 8-14.
Init ==
    /\ environ \in Environments
    /\ PRESS_DIGIT = getenv(environ, "PRESS_DIGIT", Some("0"))[1]
    /\ RECORDING_LIMIT = int(getenv(environ, "RECORDING_LIMIT", Some("60"))[1])
    /\ FORWARD_TO_NUMBER = getenv(environ, "FORWARD_TO_NUMBER", None)
    /\ VIRTUAL_NUMBER = getenv(environ, "VIRTUAL_NUMBER", Some("Unknown"))[1]
    /\ pc = "start"
    /\ socket = "unbound"
    /\ sigint = FALSE
    /\ request = << >>
    /\ called = << >>
    /\ wfile = << >>
    /\ stdout = << >>
    /\ earlier = << >>

Serve == \E self \in Requests : do_POST(self) /\ UNCHANGED earlier

Next ==
    \/ run
    \/ Serve
    \/ shutdown_request
    \/ KeyboardInterrupt
    \/ server_close

Spec == Init /\ [][Next]_vars

\* History: remember the exchange just completed, if none is remembered.
Remember ==
    /\ request # << >>
    /\ earlier = << >>
    /\ earlier' = <<[request |-> request[1], wfile |-> wfile, between |-> FALSE]>>
    /\ UNCHANGED <<environ, config, pc, socket, sigint, exchange, stdout>>

\* History: note that a request other than the remembered one is handled.
Note(self) ==
    IF earlier # << >> /\ self # earlier[1].request
    THEN <<[earlier[1] EXCEPT !.between = TRUE]>>
    ELSE earlier

ShortRequests == {r \in Requests : Len(r.rfile) <= MaxPairsTwice}

ServeTwice == \E self \in ShortRequests : do_POST(self) /\ earlier' = Note(self)

NextTwice ==
    \/ run
    \/ ServeTwice
    \/ shutdown_request
    \/ KeyboardInterrupt
    \/ server_close
    \/ Remember

SpecTwice == Init /\ [][NextTwice]_vars

\* The except clause and the return from run() are straight-line code.
FairSpec == Spec /\ WF_vars(server_close)

----------------------------------------------------------------------------
(* Properties.  They read the request as it was sent (the fields of the    *)
(* body, the headers) and the startup environment, and compare them with   *)
(* what the handler wrote.                                                 *)

\* A request has been handled and its exchange is still in view.
Handled == request # << >>

\* ... and stdout still holds what its handler printed.
Logged == Handled /\ pc = "serving"

Body == request[1].rfile

\* The body has a field of that name (whatever its value).
HasField(name) == \E i \in DOMAIN Body : Body[i][1] = name

\* The body has a field of that name with a non-empty value.
HasValue(name) == \E i \in DOMAIN Body : Body[i][1] = name /\ Body[i][2] # ""

\* https://<Host>, or https://localhost:5000 without a Host header.
ExpectedCallback ==
    IF "Host" \in DOMAIN request[1].headers
    THEN "https://" \o request[1].headers["Host"]
    ELSE "https://localhost:5000"

\* The configuration as the environment gives it.
DigitConfigured ==
    IF environ["PRESS_DIGIT"] = None THEN "0" ELSE environ["PRESS_DIGIT"][1]

ForwardConfigured ==
    environ["FORWARD_TO_NUMBER"] # None /\ environ["FORWARD_TO_NUMBER"][1] # ""

LimitConfigured ==
    IF environ["RECORDING_LIMIT"] = None THEN 60
    ELSE IF environ["RECORDING_LIMIT"][1] = "30" THEN 30 ELSE 60

PlainOK == [status  |-> 200,
            headers |-> [t \in {"Content-type"} |-> "text/plain"],
            body    |-> [bytes |-> "OK"]]

\* Exactly one response, status 200, Content-Type application/json, a JSON object.
JsonReply ==
    /\ Len(wfile) = 1
    /\ wfile[1].status = 200
    /\ wfile[1].headers = [t \in {"Content-type"} |-> "application/json"]
    /\ DOMAIN wfile[1].body = {"json"}

Json == wfile[1].body.json

\* An initial voice call: the decoded parameters hold callid and no
\* recording_url, i.e. the body has a non-empty callid and no non-empty
\* recording_url.
InitialCall == Handled /\ HasValue("callid") /\ ~HasValue("recording_url")

RECURSIVE Pauses(_)
Pauses(n) == IF n = 0 THEN "" ELSE "P" \o Pauses(n - 1)

\* C1: a POST is handled as a voice event if its decoded parameters contain
\* callid and as an SMS event otherwise, and exactly one of the two handlers
\* runs for it.
C1_Dispatch ==
    Handled =>
        /\ Len(called) = 1
        /\ called[1] = "_handle_voice" <=> "callid" \in DOMAIN parse_qs(Body)
        /\ called[1] = "_handle_sms" <=> "callid" \notin DOMAIN parse_qs(Body)

C1_Witness ==
    /\ Handled
    /\ "callid" \in DOMAIN parse_qs(Body)
    /\ "from" \notin DOMAIN parse_qs(Body)
    /\ called = <<"_handle_voice">>

\* C2 as stated: every body that contains a callid field and no
\* recording_url field is answered 200 application/json with
\* recordcall = https://<Host> (localhost:5000 without a Host header).
C2_AnyCallid ==
    (Handled /\ HasField("callid") /\ ~HasField("recording_url")) =>
        /\ JsonReply
        /\ "recordcall" \in DOMAIN Json
        /\ Json["recordcall"] = ExpectedCallback

\* C2 amended: every body that contains a callid field with a non-empty
\* value and no recording_url field is answered 200 application/json with
\* recordcall = https://<Host> (localhost:5000 without a Host header),
\* under every configuration.
C2_RecordCall ==
    (Handled /\ HasValue("callid") /\ ~HasField("recording_url")) =>
        /\ JsonReply
        /\ "recordcall" \in DOMAIN Json
        /\ Json["recordcall"] = ExpectedCallback

C2_Witness ==
    /\ Handled /\ HasValue("callid") /\ ~HasField("recording_url")
    /\ "Host" \in DOMAIN request[1].headers
    /\ JsonReply
    /\ Json["recordcall"] = "https://bridge.example"

\* C3: initial voice call with a non-empty PRESS_DIGIT d: play is
\* sound/dtmf/ followed by ten P and d; next is {connect: forward number}
\* if forwarding is configured, else {record: callback, timelimit: limit};
\* the top level has no connect, record or timelimit.
C3_PressDigit ==
    (InitialCall /\ DigitConfigured # "") =>
        /\ JsonReply
        /\ DOMAIN Json = {"recordcall", "play", "next"}
        /\ Json["play"] = "sound/dtmf/" \o Pauses(10) \o DigitConfigured
        /\ IF ForwardConfigured
           THEN /\ DOMAIN Json["next"] = {"connect"}
                /\ Json["next"]["connect"] = environ["FORWARD_TO_NUMBER"][1]
           ELSE /\ DOMAIN Json["next"] = {"record", "timelimit"}
                /\ Json["next"]["record"] = ExpectedCallback
                /\ Json["next"]["timelimit"] = LimitConfigured

C3_Witness ==
    /\ InitialCall
    /\ environ["PRESS_DIGIT"] = Some("5")
    /\ ~ForwardConfigured
    /\ JsonReply
    /\ Json["play"] = "sound/dtmf/PPPPPPPPPP5"
    /\ Json["next"]["timelimit"] = 60

\* C4: initial voice call, PRESS_DIGIT empty, forwarding configured: the
\* JSON has connect equal to the forwarding number and exactly the keys
\* recordcall and connect.
C4_ForwardOnly ==
    (InitialCall /\ DigitConfigured = "" /\ ForwardConfigured) =>
        /\ JsonReply
        /\ DOMAIN Json = {"recordcall", "connect"}
        /\ Json["connect"] = environ["FORWARD_TO_NUMBER"][1]

C4_Witness ==
    /\ InitialCall /\ DigitConfigured = "" /\ ForwardConfigured
    /\ JsonReply
    /\ Json["connect"] = "+1234"

\* C5: initial voice call, PRESS_DIGIT empty, no forwarding number (unset or
\* empty): the JSON has record equal to the callback URL (the value of
\* recordcall), timelimit equal to the configured limit, and no play, next
\* or connect.
C5_RecordOnly ==
    (InitialCall /\ DigitConfigured = "" /\ ~ForwardConfigured) =>
        /\ JsonReply
        /\ DOMAIN Json = {"recordcall", "record", "timelimit"}
        /\ Json["record"] = ExpectedCallback
        /\ Json["record"] = Json["recordcall"]
        /\ Json["timelimit"] = LimitConfigured

C5_Witness ==
    /\ InitialCall /\ DigitConfigured = ""
    /\ environ["FORWARD_TO_NUMBER"] = Some("")
    /\ environ["RECORDING_LIMIT"] = Some("30")
    /\ JsonReply
    /\ Json["timelimit"] = 30

\* C6: a POST with a callid field and recording_url=<url> (a non-empty url)
\* is answered by exactly one response, 200 text/plain OK, and no JSON
\* payload, whatever the configuration.
C6_RecordingFinished ==
    (Handled /\ HasField("callid") /\ HasValue("recording_url")) =>
        wfile = <<PlainOK>>

C6_Witness ==
    /\ Handled /\ HasValue("callid") /\ HasValue("recording_url")
    /\ called = <<"_handle_voice">>
    /\ wfile = <<PlainOK>>

\* C7: a POST without a callid field is answered 200 text/plain OK and no
\* JSON payload; without a from field the logged sender is Unknown, without
\* a message field the logged message is empty.
C7_Sms ==
    (Handled /\ ~HasField("callid")) =>
        /\ wfile = <<PlainOK>>
        /\ Logged =>
            /\ Len(stdout) = 7
            /\ ~HasField("from") => stdout[4] = "From:    Unknown"
            /\ ~HasField("message") => stdout[5] = "Message: "

C7_Witness ==
    /\ Logged /\ ~HasField("callid")
    /\ ~HasField("from") /\ HasValue("message")
    /\ wfile = <<PlainOK>>
    /\ stdout[4] = "From:    Unknown"
    /\ stdout[5] = "Message: hi"

\* C8: every well-formed POST, whichever fields are present, absent,
\* repeated or empty-valued, gets exactly one response, of status 200.
C8_Always200 ==
    Handled => Len(wfile) = 1 /\ wfile[1].status = 200

C8_Witness ==
    /\ Handled
    /\ Len(Body) = 2
    /\ Body[1][1] = Body[2][1]
    /\ Body[1][2] = ""
    /\ ~HasField("from")
    /\ Len(wfile) = 1 /\ wfile[1].status = 200

\* C9: the configuration keeps its startup value, and a payload handled
\* again gets the response it got before, whether or not other requests
\* were handled in between.
C9_Stateless ==
    /\ PRESS_DIGIT = DigitConfigured
    /\ RECORDING_LIMIT = LimitConfigured
    /\ FORWARD_TO_NUMBER = environ["FORWARD_TO_NUMBER"]
    /\ VIRTUAL_NUMBER = "Unknown"
    /\ (Handled /\ earlier # << >> /\ earlier[1].request = request[1]) =>
           earlier[1].wfile = wfile

C9_Witness ==
    /\ Handled /\ earlier # << >>
    /\ earlier[1].request = request[1]
    /\ earlier[1].between
    /\ HasValue("message")
    /\ called = <<"_handle_sms">>
    /\ earlier[1].wfile = wfile

\* C10: until the interrupt the server is up with its socket open; an
\* interrupt received while serving leads to the socket closed and the
\* process exited; nothing is served once the socket is closed.
C10_Lifetime ==
    /\ [](~sigint => pc \in {"start", "serving"} /\ socket # "closed")
    /\ (sigint /\ pc = "except") ~> (socket = "closed" /\ pc = "exited")
    /\ [][socket = "closed" => exchange' = exchange]_vars

C10_Witness ==
    /\ sigint
    /\ pc = "exited"
    /\ socket = "closed"
    /\ Handled

====
